---------------------------- MODULE Spec2Model ----------------------------
(***************************************************************************)
(* PhishGuard telemetry-to-risk pipeline.                                  *)
(*                                                                         *)
(*   - the client-side sampler, src/useBehaviorMonitor.ts (a React hook    *)
(*     holding two sliding windows and a published BehaviorData sample);   *)
(*   - the part of src/App.tsx that mounts the sampler: the WebSocket it    *)
(*     opens, the effect that sends a BEHAVIOR_REPORT, and the displayed   *)
(*     risk that socket.onmessage sets;                                    *)
(*   - the server-side message handler, src/server.ts (scorer and session  *)
(*     store behind one WebSocket "message" listener per connection).      *)
(*                                                                         *)
(* An input event, the render it causes and the effects of that render are *)
(* one step: React commits the update of one event before the next event   *)
(* is dispatched.                                                          *)
(*                                                                         *)
(* JavaScript numbers are modelled as exact rationals [n, d] in lowest     *)
(* terms (d > 0); floating-point rounding is not modelled.  Pointer        *)
(* positions are drawn from points whose pairwise distances are integers,  *)
(* so Math.sqrt is exact on every value it is applied to.                  *)
(***************************************************************************)
EXTENDS Integers, Sequences, FiniteSets, TLC

(***************************************************************************)
(* Bounds of the model (not program constants).                            *)
(***************************************************************************)
\* largest advance of Date.now() between two consecutive input events
MaxAdv == 1
\* input events (key + pointer) per run of the short specification
MaxEvents == 4
\* activations of monitoring per run of the short specification
MaxSessions == 2
\* frames arriving at the server per connection-level run
MaxMsgs == 3
\* clock advances plus pointer direction changes per run of the long
\* (window-overflow) specification and of the client specification
MaxVariation == 1
\* input events (key + pointer, observed or not) per run of the client
\* specification
MaxClientEvents == 3
\* frames delivered to socket.onmessage per run of the display specification
MaxDownstream == 3

(***************************************************************************)
(* Program constants.                                                      *)
(***************************************************************************)
\* capacity of keyIntervals: "if (keyIntervals.current.length > 10) shift()"
KeyCap == 10
\* capacity of mousePositions: "if (mousePositions.current.length > 20) shift()"
PtrCap == 20

\* clientX / clientY values of the modelled mousemove events; every pairwise
\* distance is an integer (0, 3, 4 or 5)
Positions == { [x |-> 0, y |-> 0], [x |-> 3, y |-> 4], [x |-> 3, y |-> 0] }

\* the two positions the pointer moves between in the long runs
LongPositions == { [x |-> 0, y |-> 0], [x |-> 3, y |-> 4] }

(***************************************************************************)
(* JavaScript numbers as exact rationals.                                  *)
(***************************************************************************)
Abs(i) == IF i < 0 THEN -i ELSE i

RECURSIVE GCD(_, _)
GCD(a, b) == IF b = 0 THEN a ELSE GCD(b, a % b)

\* the number n / d, d > 0, in lowest terms
Rat(n, d) == LET g == GCD(Abs(n), d) IN [n |-> n \div g, d |-> d \div g]

RInt(i) == [n |-> i, d |-> 1]

RAdd(a, b) == Rat(a.n * b.d + b.n * a.d, a.d * b.d)

RSub(a, b) == Rat(a.n * b.d - b.n * a.d, a.d * b.d)

RAbs(a) == [n |-> Abs(a.n), d |-> a.d]

\* a / k for an integer k > 0
RDivInt(a, k) == Rat(a.n, a.d * k)

\* a > b
RGreater(a, b) == a.n * b.d > b.n * a.d

\* Math.sqrt on a perfect square
Sqrt(n) == CHOOSE r \in 0..n : r * r = n

\* arr.reduce((a, b) => a + b, 0)
RECURSIVE Sum(_)
Sum(s) == IF s = <<>> THEN 0 ELSE Head(s) + Sum(Tail(s))

(***************************************************************************)
(* State.                                                                  *)
(***************************************************************************)
VARIABLES
    \* ---- useBehaviorMonitor ----
    isActive,        \* the hook's argument: listeners attached iff TRUE
    data,            \* useState<BehaviorData>: the published sample
    lastKeyTime,     \* useRef<number>(0)
    keyIntervals,    \* useRef<number[]>([])
    mousePositions,  \* useRef<{x, y}[]>([])
    clock,           \* the value Date.now() returns
    \* ---- App ----
    socket,          \* socketRef.current.readyState
    appRiskScore,    \* App's riskScore, useState(0): the displayed score
    appRiskReason,   \* App's riskReason, useState('System Initialized')
    sent,            \* the objects handed to socketRef.current.send, in order
    \* ---- history of the run (not program state) ----
    env,             \* the kind of run: "short", "long", "client", "display",
                     \* "server" or "score"
    sessionNo,       \* activations so far
    keyTimes,        \* capture times of the keystrokes of the current session
    sessPtr,         \* pointer events handled in the current session
    gapHist,         \* every gap pushed into keyIntervals, in arrival order
    posHist,         \* every position pushed into mousePositions, in arrival order
    nKeys,           \* keydown events handled since the hook was mounted
    nVar,            \* clock advances and pointer direction changes so far
    sentAt,          \* for each element of sent: the session and the number of
                     \* events handled when it was sent
    delivered,       \* every frame dispatched to socket.onmessage, in order
    ignored,         \* input events dispatched while no listener was attached
    \* ---- server.ts ----
    sessions,        \* const sessions = new Map(): token -> record
    inbox,           \* per connection: frames received, not yet handed to the listener
    outbox,          \* per connection: what ws.send has sent, in order
    serverUp,        \* FALSE once an exception has left a listener uncaught
    serverClock,     \* the last value Date.now() returned on the server
    \* ---- history of the server's run (not program state) ----
    received,        \* per connection: every frame that arrived, in arrival order
    initLog          \* every sessions.set performed: connection, token, startTime

samplerVars == <<isActive, data, lastKeyTime, keyIntervals, mousePositions, clock>>
historyVars == <<env, sessionNo, keyTimes, sessPtr, gapHist, posHist, nKeys, nVar>>
serverVars == <<sessions, inbox, outbox, serverUp, serverClock>>
serverHistoryVars == <<received, initLog>>
appVars == <<socket, appRiskScore, appRiskReason, sent>>
appHistoryVars == <<sentAt, delivered, ignored>>
vars == <<samplerVars, historyVars, serverVars, serverHistoryVars, appVars,
          appHistoryVars>>

(***************************************************************************)
(* useBehaviorMonitor: the pure parts of the two handlers.                 *)
(***************************************************************************)
\* Array.prototype.shift(): drop the oldest element
\* (variant: pop() in place of shift(), dropping the newest element)
ShiftAsPop(s) == SubSeq(s, 1, Len(s) - 1)
Shift(s) == Tail(s)

\* keyIntervals.current.push(gap); if (length > 10) shift()
\* (variant: capacity off by one)
PushIntervalOffByOne(ki, gap) ==
    LET pushed == Append(ki, gap)
    IN  IF Len(pushed) > KeyCap + 1 THEN Shift(pushed) ELSE pushed
PushInterval(ki, gap) ==
    LET pushed == Append(ki, gap)
    IN  IF Len(pushed) > KeyCap THEN Shift(pushed) ELSE pushed

\* mousePositions.current.push(p); if (length > 20) shift()
PushPosition(mp, p) ==
    LET pushed == Append(mp, p)
    IN  IF Len(pushed) > PtrCap THEN Shift(pushed) ELSE pushed

\* now - lastKeyTime.current
\* (variant: the operands exchanged)
GapReversed(now, last) == last - now
Gap(now, last) == now - last

\* avgSpeed: mean of the window, 0 when it is empty
\* (variant: the sum divided by the capacity of the window)
AvgSpeedOverCap(ki) ==
    IF Len(ki) > 0 THEN Rat(Sum(ki), KeyCap) ELSE RInt(0)
AvgSpeed(ki) ==
    IF Len(ki) > 0 THEN Rat(Sum(ki), Len(ki)) ELSE RInt(0)

\* the for loop building deltas: Euclidean length of each consecutive step
Deltas(mp) ==
    [i \in 1..(Len(mp) - 1) |->
        Sqrt((mp[i + 1].x - mp[i].x) * (mp[i + 1].x - mp[i].x)
             + (mp[i + 1].y - mp[i].y) * (mp[i + 1].y - mp[i].y))]

\* deltas.reduce((a, b) => a + Math.abs(b - avg), 0)
RECURSIVE SumAbsDev(_, _)
SumAbsDev(deltas, avg) ==
    IF deltas = <<>> THEN RInt(0)
    ELSE RAdd(RAbs(RSub(RInt(Head(deltas)), avg)), SumAbsDev(Tail(deltas), avg))

\* jitter: 0 unless the window holds more than 2 positions
\* (variant: the deviations averaged over the positions, not over the steps)
JitterOverPoints(mp) ==
    IF Len(mp) > 2
    THEN LET deltas == Deltas(mp)
             avg == Rat(Sum(deltas), Len(deltas))
         IN  RDivInt(SumAbsDev(deltas, avg), Len(mp))
    ELSE RInt(0)
Jitter(mp) ==
    IF Len(mp) > 2
    THEN LET deltas == Deltas(mp)
             avg == Rat(Sum(deltas), Len(deltas))
         IN  RDivInt(SumAbsDev(deltas, avg), Len(deltas))
    ELSE RInt(0)

\* setData(prev => ({ ...prev, typingSpeed: avgSpeed, timestamp: now }))
\* (variant: the sample built anew, without ...prev)
SetTypingSpeedAnew(prev, avgSpeed, now) ==
    [typingSpeed |-> avgSpeed, mouseJitter |-> RInt(0), timestamp |-> now]
SetTypingSpeed(prev, avgSpeed, now) ==
    [prev EXCEPT !.typingSpeed = avgSpeed, !.timestamp = now]

\* setData(prev => ({ ...prev, mouseJitter: jitter, timestamp: Date.now() }))
SetMouseJitter(prev, jitter, now) ==
    [prev EXCEPT !.mouseJitter = jitter, !.timestamp = now]

\* the keydown and mousemove listeners are attached: the effect returns early
\* when isActive is false, and its cleanup removes what it added
\* (variant: the cleanup removes nothing, a listener once added stays)
ListenerNeverRemoved == sessionNo > 0
ListenerAttached == isActive

(***************************************************************************)
(* App.tsx: the report effect and socket.onmessage.                        *)
(***************************************************************************)
\* showLogin && socketRef.current?.readyState === WebSocket.OPEN
\* (variant: the readyState test left out)
ShouldSendWhenShown(showLogin) == showLogin
ShouldSend(showLogin) == showLogin /\ socket = "OPEN"

\* the object the effect serialises: the two metrics of the published sample
\* (variant: the two metrics exchanged)
BehaviorReportSwapped(behavior) ==
    [type |-> "BEHAVIOR_REPORT",
     payload |-> [typingSpeed |-> behavior.mouseJitter,
                  mouseJitter |-> behavior.typingSpeed,
                  sessionToken |-> "mock-token-123"]]
BehaviorReport(behavior) ==
    [type |-> "BEHAVIOR_REPORT",
     payload |-> [typingSpeed |-> behavior.typingSpeed,
                  mouseJitter |-> behavior.mouseJitter,
                  sessionToken |-> "mock-token-123"]]

\* useEffect(..., [behavior, showLogin]): what has been sent once the effect
\* has run with the given showLogin and behavior
ReportEffect(showLogin, behavior) ==
    IF ShouldSend(showLogin) THEN Append(sent, BehaviorReport(behavior)) ELSE sent

\* the history entry that goes with it
StampEffect(showLogin, session, events) ==
    IF ShouldSend(showLogin)
    THEN Append(sentAt, [session |-> session, events |-> events])
    ELSE sentAt

\* a downstream frame as JSON.parse(event.data) sees it: parses = FALSE is
\* text JSON.parse throws on
Downstream(type, score, reason) ==
    [parses |-> TRUE, type |-> type,
     payload |-> [riskScore |-> score, reason |-> reason]]

BadDownstream ==
    [parses |-> FALSE, type |-> "", payload |-> [riskScore |-> 0, reason |-> ""]]

\* the frames delivered to the client in the display runs
ClientMsgs ==
    { Downstream("RISK_UPDATE", 0, "Normal"),
      Downstream("RISK_UPDATE", 70, "Anomalous interaction detected"),
      Downstream("SESSION_ACK", 99, "acknowledged"),
      BadDownstream }

\* if (data.type === 'RISK_UPDATE')
\* (variant: the test on the type left out)
AnyTypeIsRiskUpdate(m) == TRUE
IsRiskUpdate(m) == m.type = "RISK_UPDATE"

(***************************************************************************)
(* server.ts: the wire messages.                                          *)
(*                                                                         *)
(* A frame is modelled by what JSON.parse makes of it: parses = FALSE is   *)
(* text JSON.parse throws on; otherwise type is data.type, hasPayload says *)
(* whether data.payload is an object, and the remaining fields are the     *)
(* payload's (Undefined / NoToken where the property is absent).           *)
(***************************************************************************)
Conns == {"c1", "c2"}

Tokens == {"tokA", "tokB"}

\* the value of an absent numeric property
Undefined == [undefined |-> TRUE]

\* the Map key an absent payload.token gives (the value undefined)
NoToken == "undefined"

Unparseable ==
    [parses |-> FALSE, type |-> "", hasPayload |-> FALSE,
     typingSpeed |-> Undefined, mouseJitter |-> Undefined, token |-> NoToken]

Report(ts, mj, tok) ==
    [parses |-> TRUE, type |-> "BEHAVIOR_REPORT", hasPayload |-> TRUE,
     typingSpeed |-> ts, mouseJitter |-> mj, token |-> tok]

SessionInit(tok) ==
    [parses |-> TRUE, type |-> "SESSION_INIT", hasPayload |-> TRUE,
     typingSpeed |-> Undefined, mouseJitter |-> Undefined, token |-> tok]

\* a message of the given type with no payload property
Bare(type) ==
    [parses |-> TRUE, type |-> type, hasPayload |-> FALSE,
     typingSpeed |-> Undefined, mouseJitter |-> Undefined, token |-> NoToken]

\* the frames of the connection-level runs
ServerMsgs ==
    { Unparseable, Bare("BEHAVIOR_REPORT"), Bare("SESSION_INIT"), Bare("PING"),
      Report(RInt(600), Rat(9, 10), "tokA"), Report(RInt(600), Rat(9, 10), "tokB"),
      Report(RInt(0), RInt(0), "tokB"),
      SessionInit("tokA"), SessionInit("tokB") }

\* the frames of the scoring runs: reports on a grid around both thresholds,
\* and every other shape of frame
ScoreTypingSpeeds ==
    { Undefined, RInt(0), RInt(499), RInt(500), Rat(1001, 2), RInt(501), RInt(600) }

ScoreMouseJitters ==
    { Undefined, RInt(0), Rat(7, 10), Rat(4, 5), Rat(81, 100), Rat(9, 10), RInt(1) }

ScoreMsgs ==
    { Report(ts, mj, tok) : ts \in ScoreTypingSpeeds, mj \in ScoreMouseJitters,
                            tok \in Tokens }
    \cup { SessionInit(tok) : tok \in Tokens \cup {NoToken} }
    \cup { Unparseable, Bare("BEHAVIOR_REPORT"), Bare("SESSION_INIT"), Bare("PING") }

(***************************************************************************)
(* server.ts: the "message" listener.                                      *)
(***************************************************************************)
\* v > r in JavaScript: false when v is undefined (NaN compares false)
\* (variant: the comparison written as !(v <= r), true for undefined)
JsGreaterAsNotLessEq(v, r) == v = Undefined \/ RGreater(v, r)
JsGreater(v, r) == v # Undefined /\ RGreater(v, r)

\* let riskScore = 0; if (typingSpeed > 500) += 30; if (mouseJitter > 0.8) += 40
\* (variant: both thresholds inclusive)
JsGreaterEq(v, r) == v # Undefined /\ ~RGreater(r, v)
RiskScoreInclusive(typingSpeed, mouseJitter) ==
    (IF JsGreaterEq(typingSpeed, RInt(500)) THEN 30 ELSE 0)
    + (IF JsGreaterEq(mouseJitter, Rat(8, 10)) THEN 40 ELSE 0)
RiskScore(typingSpeed, mouseJitter) ==
    (IF JsGreater(typingSpeed, RInt(500)) THEN 30 ELSE 0)
    + (IF JsGreater(mouseJitter, Rat(8, 10)) THEN 40 ELSE 0)

\* riskScore > 50 ? "Anomalous interaction detected" : "Normal"
\* (variant: the limit 30 in place of 50)
ReasonOverThirty(riskScore) ==
    IF riskScore > 30 THEN "Anomalous interaction detected" ELSE "Normal"
Reason(riskScore) ==
    IF riskScore > 50 THEN "Anomalous interaction detected" ELSE "Normal"

\* the object handed to ws.send
\* (variant: a report whose token is in the session store is scored 0)
RiskUpdateKnownSession(m) ==
    LET riskScore == IF m.token \in DOMAIN sessions THEN 0
                     ELSE RiskScore(m.typingSpeed, m.mouseJitter)
    IN  [type |-> "RISK_UPDATE",
         payload |-> [riskScore |-> riskScore, reason |-> Reason(riskScore)]]
RiskUpdate(m) ==
    LET riskScore == RiskScore(m.typingSpeed, m.mouseJitter)
    IN  [type |-> "RISK_UPDATE",
         payload |-> [riskScore |-> riskScore, reason |-> Reason(riskScore)]]

\* if (data.type === "BEHAVIOR_REPORT"): the branch that scores and sends
\* (variant: a SESSION_INIT is answered too)
ScoredOrInit(m) == m.type \in {"BEHAVIOR_REPORT", "SESSION_INIT"}
Scored(m) == m.type = "BEHAVIOR_REPORT"

\* the listener throws: JSON.parse on unparseable text, destructuring
\* data.payload or reading data.payload.token when payload is undefined
\* (variant: a final else branch that throws on any other type)
ThrowsOnOtherType(m) ==
    \/ ~m.parses
    \/ m.type \in {"BEHAVIOR_REPORT", "SESSION_INIT"} /\ ~m.hasPayload
    \/ m.type \notin {"BEHAVIOR_REPORT", "SESSION_INIT"}
Throws(m) ==
    \/ ~m.parses
    \/ m.type \in {"BEHAVIOR_REPORT", "SESSION_INIT"} /\ ~m.hasPayload

\* sessions.set(token, record)
\* (variant: insert only, a token already present keeps its record)
SessionsSetIfAbsent(map, token, record) ==
    IF token \in DOMAIN map THEN map
    ELSE [k \in DOMAIN map \cup {token} |-> IF k = token THEN record ELSE map[k]]
SessionsSet(map, token, record) ==
    [k \in DOMAIN map \cup {token} |-> IF k = token THEN record ELSE map[k]]

\* the record a SESSION_INIT stores
SessionRecord(now) ==
    [startTime |-> now, ip |-> "192.168.1.1", userAgent |-> "Mozilla/5.0..."]

(***************************************************************************)
(* Initial state: the hook as mounted by App (showLogin = false).          *)
(***************************************************************************)
SamplerInit ==
    /\ isActive = FALSE
    /\ clock = 1
    /\ data = [typingSpeed |-> RInt(0), mouseJitter |-> RInt(0), timestamp |-> 1]
    /\ lastKeyTime = 0
    /\ keyIntervals = <<>>
    /\ mousePositions = <<>>

HistoryInit ==
    /\ sessionNo = 0
    /\ keyTimes = <<>>
    /\ sessPtr = 0
    /\ gapHist = <<>>
    /\ posHist = <<>>
    /\ nKeys = 0
    /\ nVar = 0

\* App as mounted: the first effect has called new WebSocket(...), nothing has
\* been sent or received
AppInit ==
    /\ socket = "CONNECTING"
    /\ appRiskScore = 0
    /\ appRiskReason = "System Initialized"
    /\ sent = <<>>
    /\ sentAt = <<>>
    /\ delivered = <<>>
    /\ ignored = 0

\* short runs: any interleaving of key and pointer events over several sessions
ShortBudget ==
    [maxKeys |-> MaxEvents, maxPtr |-> MaxEvents, maxTotal |-> MaxEvents,
     maxVar |-> 2 * MaxEvents, maxSessions |-> MaxSessions, ptrFirst |-> FALSE,
     positions |-> Positions]

\* long runs: one session in which the pointer is moved and then the keys are
\* typed, with enough events of each kind to overflow its window
LongBudget ==
    [maxKeys |-> KeyCap + 2, maxPtr |-> PtrCap + 2, maxTotal |-> KeyCap + PtrCap + 4,
     maxVar |-> MaxVariation, maxSessions |-> 1, ptrFirst |-> TRUE,
     positions |-> LongPositions]

\* client runs: a few events over several sessions, while the socket opens and
\* closes
ClientBudget ==
    [maxKeys |-> MaxClientEvents, maxPtr |-> MaxClientEvents,
     maxTotal |-> MaxClientEvents, maxVar |-> MaxVariation,
     maxSessions |-> MaxSessions, ptrFirst |-> FALSE, positions |-> LongPositions]

\* startServer(): empty store, no connection has delivered anything
ServerInit ==
    /\ sessions = [k \in {} |-> SessionRecord(0)]
    /\ inbox = [c \in Conns |-> <<>>]
    /\ outbox = [c \in Conns |-> <<>>]
    /\ serverUp = TRUE
    /\ serverClock = 1
    /\ received = [c \in Conns |-> <<>>]
    /\ initLog = <<>>

\* the sampler specifications: nothing arrives at the server
NoTraffic == [msgs |-> {}, maxMsgs |-> 0]

\* connection-level runs: up to MaxMsgs frames over the two connections
ServerTraffic == [msgs |-> ServerMsgs, maxMsgs |-> MaxMsgs]

\* scoring runs: one frame, mostly reports from the grid
ScoreTraffic == [msgs |-> ScoreMsgs, maxMsgs |-> 1]

ServerSpecInit ==
    SamplerInit /\ HistoryInit /\ AppInit /\ ServerInit /\ env = "server"

ScoreInit == SamplerInit /\ HistoryInit /\ AppInit /\ ServerInit /\ env = "score"

\* the event budget of the sampler in the current kind of run
Budget ==
    CASE env = "long" -> LongBudget
      [] env = "client" -> ClientBudget
      [] OTHER -> ShortBudget

\* the frames arriving at the server in the current kind of run
Traffic ==
    CASE env = "server" -> ServerTraffic
      [] env = "score" -> ScoreTraffic
      [] OTHER -> NoTraffic

Init == SamplerInit /\ HistoryInit /\ AppInit /\ ServerInit /\ env = "short"

WindowInit == SamplerInit /\ HistoryInit /\ AppInit /\ ServerInit /\ env = "long"

ClientInit == SamplerInit /\ HistoryInit /\ AppInit /\ ServerInit /\ env = "client"

DisplayInit == SamplerInit /\ HistoryInit /\ AppInit /\ ServerInit /\ env = "display"

(***************************************************************************)
(* Actions.                                                                *)
(***************************************************************************)
\* input events dispatched so far, observed or not
Events == nKeys + Len(posHist) + ignored

\* setShowLogin(true): isActive false -> true, the hook's effect attaches both
\* listeners, and App's report effect runs because showLogin has changed
Activate ==
    /\ ~isActive
    /\ sessionNo < Budget.maxSessions
    /\ isActive' = TRUE
    /\ sessionNo' = sessionNo + 1
    /\ keyTimes' = <<>>
    /\ sessPtr' = 0
    /\ sent' = ReportEffect(TRUE, data)
    /\ sentAt' = StampEffect(TRUE, sessionNo + 1, nKeys + Len(posHist))
    /\ UNCHANGED <<data, lastKeyTime, keyIntervals, mousePositions, clock>>
    /\ UNCHANGED <<env, gapHist, posHist, nKeys, nVar>>
    /\ UNCHANGED <<socket, appRiskScore, appRiskReason, delivered, ignored>>
    /\ UNCHANGED <<serverVars, serverHistoryVars>>

\* setShowLogin(false): isActive true -> false, the cleanup of the hook's effect
\* removes both listeners, and App's report effect runs with showLogin false
Deactivate ==
    /\ isActive
    /\ isActive' = FALSE
    /\ sent' = ReportEffect(FALSE, data)
    /\ sentAt' = StampEffect(FALSE, sessionNo, nKeys + Len(posHist))
    /\ UNCHANGED <<data, lastKeyTime, keyIntervals, mousePositions, clock>>
    /\ UNCHANGED historyVars
    /\ UNCHANGED <<socket, appRiskScore, appRiskReason, delivered, ignored>>
    /\ UNCHANGED <<serverVars, serverHistoryVars>>

\* a keydown event while the listener is attached; Date.now() has advanced by
\* adv.  setData publishes a new sample object, so App's report effect runs.
handleKeyDown(adv) ==
    /\ ListenerAttached
    /\ nKeys < Budget.maxKeys
    /\ Events < Budget.maxTotal
    /\ adv > 0 => nVar < Budget.maxVar
    /\ LET now == clock + adv
           ki == IF lastKeyTime # 0
                 THEN PushInterval(keyIntervals, Gap(now, lastKeyTime))
                 ELSE keyIntervals
       IN  /\ clock' = now
           /\ keyIntervals' = ki
           /\ lastKeyTime' = now
           /\ data' = SetTypingSpeed(data, AvgSpeed(ki), now)
           /\ sent' = ReportEffect(isActive, data')
           /\ sentAt' = StampEffect(isActive, sessionNo, nKeys + 1 + Len(posHist))
           /\ keyTimes' = Append(keyTimes, now)
           /\ gapHist' = IF lastKeyTime # 0
                         THEN Append(gapHist, Gap(now, lastKeyTime)) ELSE gapHist
    /\ nKeys' = nKeys + 1
    /\ nVar' = IF adv > 0 THEN nVar + 1 ELSE nVar
    /\ UNCHANGED <<isActive, mousePositions>>
    /\ UNCHANGED <<env, sessionNo, sessPtr, posHist>>
    /\ UNCHANGED <<socket, appRiskScore, appRiskReason, delivered, ignored>>
    /\ UNCHANGED <<serverVars, serverHistoryVars>>

\* a pointer event turns when it does not repeat the previous position
Turns(p) == posHist # <<>> /\ posHist[Len(posHist)] # p

\* a mousemove event at position p while the listener is attached; setData
\* publishes a new sample object, so App's report effect runs
handleMouseMove(p, adv) ==
    /\ ListenerAttached
    /\ Len(posHist) < Budget.maxPtr
    /\ Budget.ptrFirst => nKeys = 0
    /\ Events < Budget.maxTotal
    /\ LET cost == (IF adv > 0 THEN 1 ELSE 0) + (IF Turns(p) THEN 1 ELSE 0)
       IN  /\ cost > 0 => nVar + cost <= Budget.maxVar
           /\ nVar' = nVar + cost
    /\ LET mp == PushPosition(mousePositions, p)
       IN  /\ mousePositions' = mp
           /\ clock' = clock + adv
           /\ data' = SetMouseJitter(data, Jitter(mp), clock + adv)
           /\ sent' = ReportEffect(isActive, data')
           /\ sentAt' = StampEffect(isActive, sessionNo, nKeys + Len(posHist) + 1)
    /\ posHist' = Append(posHist, p)
    /\ sessPtr' = sessPtr + 1
    /\ UNCHANGED <<isActive, lastKeyTime, keyIntervals>>
    /\ UNCHANGED <<env, sessionNo, keyTimes, gapHist, nKeys>>
    /\ UNCHANGED <<socket, appRiskScore, appRiskReason, delivered, ignored>>
    /\ UNCHANGED <<serverVars, serverHistoryVars>>

Next ==
    \/ Activate
    \/ Deactivate
    \/ \E adv \in 0..MaxAdv : handleKeyDown(adv)
    \/ \E p \in Budget.positions, adv \in 0..MaxAdv : handleMouseMove(p, adv)

\* short runs, several sessions
Spec == Init /\ [][Next]_vars

\* long runs, one session: both windows overflow
WindowSpec == WindowInit /\ [][Next]_vars

\* a keydown or mousemove event dispatched while no listener is attached:
\* nothing of the program runs
DetachedEvent ==
    /\ ~ListenerAttached
    /\ Events < Budget.maxTotal
    /\ ignored' = ignored + 1
    /\ UNCHANGED <<samplerVars, historyVars, appVars, sentAt, delivered>>
    /\ UNCHANGED <<serverVars, serverHistoryVars>>

\* the connection is established: readyState CONNECTING -> OPEN.  App sets no
\* onopen handler and readyState is no dependency of the report effect.
SocketOpen ==
    /\ socket = "CONNECTING"
    /\ socket' = "OPEN"
    /\ UNCHANGED <<appRiskScore, appRiskReason, sent>>
    /\ UNCHANGED <<samplerVars, historyVars, appHistoryVars>>
    /\ UNCHANGED <<serverVars, serverHistoryVars>>

\* the connection fails or is closed by either side: readyState -> CLOSED.
\* App sets no onclose or onerror handler and never calls new WebSocket again.
SocketClose ==
    /\ socket \in {"CONNECTING", "OPEN"}
    /\ socket' = "CLOSED"
    /\ UNCHANGED <<appRiskScore, appRiskReason, sent>>
    /\ UNCHANGED <<samplerVars, historyVars, appHistoryVars>>
    /\ UNCHANGED <<serverVars, serverHistoryVars>>

\* socket.onmessage on frame m (message events are dispatched only while the
\* socket is open).  A throw of JSON.parse leaves the handler before any set.
onmessage(m) ==
    /\ socket = "OPEN"
    /\ Len(delivered) < MaxDownstream
    /\ delivered' = Append(delivered, m)
    /\ IF m.parses /\ IsRiskUpdate(m)
       THEN /\ appRiskScore' = m.payload.riskScore
            /\ appRiskReason' = m.payload.reason
       ELSE UNCHANGED <<appRiskScore, appRiskReason>>
    /\ UNCHANGED <<socket, sent, sentAt, ignored>>
    /\ UNCHANGED <<samplerVars, historyVars>>
    /\ UNCHANGED <<serverVars, serverHistoryVars>>

ClientNext ==
    \/ Next
    \/ DetachedEvent
    \/ SocketOpen
    \/ SocketClose

\* client runs: the sampler mounted in App, and the socket the reports go to.
\* (Downstream frames are left to the display runs: onmessage sets the
\* displayed risk only, which neither the sampler nor the report effect reads.)
ClientSpec == ClientInit /\ [][ClientNext]_vars

DisplayNext ==
    \/ Activate
    \/ Deactivate
    \/ SocketOpen
    \/ SocketClose
    \/ \E m \in ClientMsgs : onmessage(m)

\* display runs: the socket, the frames arriving on it and the login form shown
\* and hidden, with no input event
DisplaySpec == DisplayInit /\ [][DisplayNext]_vars

\* frames that have arrived on all connections together
RECURSIVE TotalLen(_, _)
TotalLen(f, S) ==
    IF S = {} THEN 0
    ELSE LET c == CHOOSE x \in S : TRUE IN Len(f[c]) + TotalLen(f, S \ {c})

Arrived == TotalLen(received, Conns)

\* a frame m arrives on connection c
Receive(c, m) ==
    /\ Arrived < Traffic.maxMsgs
    /\ inbox' = [inbox EXCEPT ![c] = Append(@, m)]
    /\ received' = [received EXCEPT ![c] = Append(@, m)]
    /\ UNCHANGED <<sessions, outbox, serverUp, serverClock, initLog>>
    /\ UNCHANGED <<samplerVars, historyVars, appVars, appHistoryVars>>

\* ws.on("message"): the listener runs on the oldest frame of connection c;
\* Date.now() has advanced by adv since it was last read
OnMessage(c, adv) ==
    /\ serverUp
    /\ inbox[c] # <<>>
    /\ LET m == Head(inbox[c])
           now == serverClock + adv
       IN  /\ adv > 0 => (m.type = "SESSION_INIT" /\ ~Throws(m))
           /\ inbox' = [inbox EXCEPT ![c] = Tail(@)]
           /\ IF Throws(m)
              THEN \* nothing catches the exception: the process goes down
                   /\ serverUp' = FALSE
                   /\ UNCHANGED <<sessions, outbox, serverClock, initLog>>
              ELSE /\ serverUp' = TRUE
                   /\ outbox' = IF Scored(m)
                                THEN [outbox EXCEPT ![c] = Append(@, RiskUpdate(m))]
                                ELSE outbox
                   /\ IF m.type = "SESSION_INIT"
                      THEN /\ sessions' = SessionsSet(sessions, m.token, SessionRecord(now))
                           /\ serverClock' = now
                           /\ initLog' = Append(initLog,
                                 [conn |-> c, token |-> m.token, startTime |-> now])
                      ELSE UNCHANGED <<sessions, serverClock, initLog>>
    /\ UNCHANGED received
    /\ UNCHANGED <<samplerVars, historyVars, appVars, appHistoryVars>>

ServerNext ==
    \/ \E c \in Conns, m \in Traffic.msgs : Receive(c, m)
    \/ \E c \in Conns, adv \in 0..MaxAdv : OnMessage(c, adv)

\* connection-level runs of the server
ServerSpec == ServerSpecInit /\ [][ServerNext]_vars

\* scoring runs of the server
ScoreSpec == ScoreInit /\ [][ServerNext]_vars

(***************************************************************************)
(* Operators used to state the properties.                                 *)
(***************************************************************************)
Min(a, b) == IF a < b THEN a ELSE b

\* the last n elements of s
LastN(s, n) == SubSeq(s, Len(s) - n + 1, Len(s))

\* the gaps between consecutive capture times
GapsOf(times) == [i \in 1..(Len(times) - 1) |-> times[i + 1] - times[i]]

\* r is the arithmetic mean of the integer sequence s (s non-empty)
IsMeanOf(r, s) == r.n * Len(s) = r.d * Sum(s)

\* sum over i of | Len(s) * s[i] - Sum(s) |
RECURSIVE ScaledDev(_, _, _)
ScaledDev(s, n, total) ==
    IF s = <<>> THEN 0 ELSE Abs(n * Head(s) - total) + ScaledDev(Tail(s), n, total)

\* r is the mean absolute deviation of s from its own mean (s non-empty):
\* r = (sum_i |s[i] - S/n|) / n = (sum_i |n s[i] - S|) / n^2
IsMeanAbsDevOf(r, s) ==
    r.n * Len(s) * Len(s) = r.d * ScaledDev(s, Len(s), Sum(s))

\* Euclidean step lengths between consecutive positions of w
StepLengths(w) ==
    [i \in 1..(Len(w) - 1) |->
        LET dx == w[i + 1].x - w[i].x
            dy == w[i + 1].y - w[i].y
        IN  CHOOSE r \in 0..(Abs(dx) + Abs(dy)) : r * r = dx * dx + dy * dy]

\* a new monitoring session has just started: no event handled in it yet
AtSessionStart == isActive /\ keyTimes = <<>> /\ sessPtr = 0

\* the frames of connection c the listener has been run on, in arrival order
Handled(c) == SubSeq(received[c], 1, Len(received[c]) - Len(inbox[c]))

IsReport(m) == m.parses /\ m.type = "BEHAVIOR_REPORT"

\* the BEHAVIOR_REPORTs among the handled frames of connection c
HandledReports(c) == SelectSeq(Handled(c), IsReport)

\* a report whose two metrics are both numbers
Numeric(m) == m.hasPayload /\ m.typingSpeed # Undefined /\ m.mouseJitter # Undefined

\* the RISK_UPDATE the scoring rule prescribes for metrics ts and mj
Prescribed(ts, mj) ==
    LET score == (IF ts.n > 500 * ts.d THEN 30 ELSE 0)
                 + (IF 10 * mj.n > 8 * mj.d THEN 40 ELSE 0)
    IN  [type |-> "RISK_UPDATE",
         payload |-> [riskScore |-> score,
                      reason |-> IF score > 50 THEN "Anomalous interaction detected"
                                 ELSE "Normal"]]

Update(score, reason) ==
    [type |-> "RISK_UPDATE", payload |-> [riskScore |-> score, reason |-> reason]]

\* report m with every absent metric set to 0
ZeroFilled(m) ==
    [m EXCEPT !.typingSpeed = IF @ = Undefined THEN RInt(0) ELSE @,
              !.mouseJitter = IF @ = Undefined THEN RInt(0) ELSE @]

(***************************************************************************)
(* C2.  Deactivating and then reactivating monitoring resets the           *)
(* key-interval window and the pointer window to empty and the             *)
(* last-keystroke timestamp to unset: the state at the start of every new  *)
(* session equals the state at the start of the first one.                 *)
(* (The refs are created once per mount and the effect never clears them:  *)
(* TLC finds this violated.)                                               *)
(***************************************************************************)
C2_ReactivationResets ==
    AtSessionStart =>
        /\ keyIntervals = <<>>
        /\ mousePositions = <<>>
        /\ lastKeyTime = 0

(***************************************************************************)
(* C3.  As claimed: after count >= 2 keystrokes of a fresh session the     *)
(* published typingSpeed is the mean of the most recent min(9, count - 1)  *)
(* inter-keystroke gaps.  (Violated from the 11th keystroke on.)           *)
(***************************************************************************)
C3_MeanOfLastNine ==
    (sessionNo = 1 /\ Len(keyTimes) >= 2) =>
        IsMeanOf(data.typingSpeed,
                 LastN(GapsOf(keyTimes), Min(9, Len(keyTimes) - 1)))

(***************************************************************************)
(* C3, amended.  After count >= 2 keystrokes of a fresh session (the first *)
(* one: empty window, last-keystroke time unset) the published typingSpeed *)
(* is the mean of the most recent min(10, count - 1) inter-keystroke gaps. *)
(***************************************************************************)
C3_MeanOfLastTen ==
    (sessionNo = 1 /\ Len(keyTimes) >= 2) =>
        IsMeanOf(data.typingSpeed,
                 LastN(GapsOf(keyTimes), Min(KeyCap, Len(keyTimes) - 1)))

\* twelve keystrokes handled, the window has overflowed, the mean is not 0
C3_Witness ==
    /\ sessionNo = 1
    /\ Len(keyTimes) > KeyCap + 1
    /\ data.typingSpeed.n > 0

(***************************************************************************)
(* C4.  Window eviction is FIFO and size-bounded: in every reachable state *)
(* the key-interval window holds at most 10 gaps and the pointer window at *)
(* most 20 positions, and each window is exactly the most recent           *)
(* min(capacity, pushed) elements pushed into it, in arrival order (so a   *)
(* push into a full window removes the oldest element, keeps the order of  *)
(* the others and leaves the size at capacity).                            *)
(***************************************************************************)
C4_FifoBounded ==
    /\ Len(keyIntervals) <= KeyCap
    /\ Len(mousePositions) <= PtrCap
    /\ keyIntervals = LastN(gapHist, Min(KeyCap, Len(gapHist)))
    /\ mousePositions = LastN(posHist, Min(PtrCap, Len(posHist)))

\* both windows have overflowed, and the first position pushed is gone
C4_Witness ==
    /\ Len(gapHist) > KeyCap
    /\ Len(posHist) > PtrCap
    /\ Len(keyIntervals) = KeyCap
    /\ Len(mousePositions) = PtrCap
    /\ \A i \in 1..Len(mousePositions) : mousePositions[i] # posHist[1]

(***************************************************************************)
(* C5.  Once 3 or more pointer events have been handled, mouseJitter       *)
(* equals the mean absolute deviation of the Euclidean step lengths        *)
(* between consecutive positions currently in the pointer window from the  *)
(* mean of those step lengths.                                             *)
(***************************************************************************)
C5_JitterIsMeanAbsDev ==
    Len(posHist) >= 3 =>
        IsMeanAbsDevOf(data.mouseJitter, StepLengths(mousePositions))

\* the pointer window has overflowed and the jitter is not 0
C5_Witness ==
    /\ Len(posHist) > PtrCap
    /\ data.mouseJitter.n > 0

(***************************************************************************)
(* C6.  After each of the first two pointer events of a monitoring session *)
(* mouseJitter is 0.  (Holds in the first session only: a later session    *)
(* starts with the positions of the earlier ones still in the window, see  *)
(* C2, and TLC finds this violated.)                                       *)
(***************************************************************************)
C6_ColdStartZero ==
    sessPtr \in {1, 2} => data.mouseJitter = RInt(0)

(***************************************************************************)
(* C1.  Every scored BEHAVIOR_REPORT with numeric metrics gets riskScore = *)
(* (30 if typingSpeed > 500 else 0) + (40 if mouseJitter > 0.8 else 0) and *)
(* reason "Anomalous interaction detected" if riskScore > 50, else         *)
(* "Normal"; both thresholds are strict; (600, 0) gives 30/Normal,         *)
(* (0, 0.9) 40/Normal, (600, 0.9) 70/Anomalous and (0, 0) 0/Normal.        *)
(***************************************************************************)
C1_ScoringRule ==
    \A c \in Conns :
        \A k \in 1..Len(HandledReports(c)) :
            LET m == HandledReports(c)[k]
                u == outbox[c][k]
            IN  Numeric(m) =>
                  /\ Len(outbox[c]) >= k
                  /\ u = Prescribed(m.typingSpeed, m.mouseJitter)
                  /\ m.typingSpeed = RInt(500) => u.payload.riskScore \in {0, 40}
                  /\ m.mouseJitter = Rat(4, 5) => u.payload.riskScore \in {0, 30}
                  /\ (m.typingSpeed = RInt(600) /\ m.mouseJitter = RInt(0))
                        => u = Update(30, "Normal")
                  /\ (m.typingSpeed = RInt(0) /\ m.mouseJitter = Rat(9, 10))
                        => u = Update(40, "Normal")
                  /\ (m.typingSpeed = RInt(600) /\ m.mouseJitter = Rat(9, 10))
                        => u = Update(70, "Anomalous interaction detected")
                  /\ (m.typingSpeed = RInt(0) /\ m.mouseJitter = RInt(0))
                        => u = Update(0, "Normal")

\* a report with typingSpeed exactly 500 and mouseJitter exactly 0.8 was scored 0
C1_Witness ==
    \E c \in Conns :
        /\ Len(HandledReports(c)) = 1
        /\ HandledReports(c)[1].typingSpeed = RInt(500)
        /\ HandledReports(c)[1].mouseJitter = Rat(4, 5)
        /\ outbox[c] = <<Update(0, "Normal")>>

(***************************************************************************)
(* C7.  A BEHAVIOR_REPORT whose mouseJitter or typingSpeed is absent does  *)
(* not throw in the listener and produces exactly one RISK_UPDATE, equal   *)
(* to the one the same report with the absent field set to 0 produces.     *)
(***************************************************************************)
C7_AbsentMetricAsZero ==
    \A c \in Conns :
        \A k \in 1..Len(HandledReports(c)) :
            LET m == HandledReports(c)[k]
            IN  (m.hasPayload /\ ~Numeric(m)) =>
                  /\ serverUp
                  /\ Len(outbox[c]) = Len(HandledReports(c))
                  /\ outbox[c][k] = RiskUpdate(ZeroFilled(m))

\* a report { typingSpeed: 600 } without mouseJitter was scored 30 / Normal
C7_Witness ==
    \E c \in Conns :
        /\ Len(HandledReports(c)) = 1
        /\ HandledReports(c)[1].typingSpeed = RInt(600)
        /\ HandledReports(c)[1].mouseJitter = Undefined
        /\ serverUp
        /\ outbox[c] = <<Update(30, "Normal")>>

(***************************************************************************)
(* C8.  A malformed upstream message (unparseable text, or a               *)
(* BEHAVIOR_REPORT / SESSION_INIT without a payload object) never raises   *)
(* an error out of the listener, so the server keeps processing messages.  *)
(* (The listener has no try/catch: TLC finds this violated.)               *)
(***************************************************************************)
C8_FailuresContained == serverUp

(***************************************************************************)
(* C9.  Within one connection frames are handled in arrival order, every   *)
(* BEHAVIOR_REPORT produces exactly one RISK_UPDATE, every other message   *)
(* none, and the k-th RISK_UPDATE sent on a connection is the score of the *)
(* k-th BEHAVIOR_REPORT received on it.  (A BEHAVIOR_REPORT without        *)
(* payload throws and produces none, see C8: TLC finds this violated.)     *)
(***************************************************************************)
C9_OneUpdatePerReportInOrder ==
    \A c \in Conns :
        /\ received[c] = Handled(c) \o inbox[c]
        /\ Len(outbox[c]) = Len(HandledReports(c))
        /\ \A k \in 1..Len(outbox[c]) :
               outbox[c][k] = RiskUpdate(HandledReports(c)[k])

(***************************************************************************)
(* C10.  Session-init is insert-or-overwrite keyed by token: the store     *)
(* holds exactly one record per distinct token ever initialised (whatever  *)
(* the connections and the interleaving), the record of a token is the one *)
(* written by the last SESSION_INIT processed for it, and no record is     *)
(* removed.                                                                *)
(***************************************************************************)
C10_LastWriteWins ==
    /\ DOMAIN sessions = { initLog[i].token : i \in 1..Len(initLog) }
    /\ \A tok \in DOMAIN sessions :
           LET last == CHOOSE i \in 1..Len(initLog) :
                          /\ initLog[i].token = tok
                          /\ \A j \in (i + 1)..Len(initLog) : initLog[j].token # tok
           IN  sessions[tok] = [startTime |-> initLog[last].startTime,
                                ip |-> "192.168.1.1",
                                userAgent |-> "Mozilla/5.0..."]

\* one token initialised twice, from two connections at different times, and
\* another token initialised in between: two records, the later startTime kept
C10_Witness ==
    \E i, j \in 1..Len(initLog) :
        /\ i < j
        /\ initLog[i].token = initLog[j].token
        /\ initLog[i].conn # initLog[j].conn
        /\ initLog[i].startTime < initLog[j].startTime
        /\ Cardinality(DOMAIN sessions) = 2
        /\ sessions[initLog[j].token].startTime = initLog[j].startTime

(***************************************************************************)
(* Operators used to state the properties of the client.                   *)
(***************************************************************************)
Last(s) == s[Len(s)]

\* a step in which a handler has run and published a sample
Published == nKeys' # nKeys \/ Len(posHist') # Len(posHist)

\* a step in which exactly one more report has been sent, and it carries the
\* metrics of the sample published by that step
OneReportOfNewSample ==
    /\ Len(sent') = Len(sent) + 1
    /\ SubSeq(sent', 1, Len(sent)) = sent
    /\ Last(sent').type = "BEHAVIOR_REPORT"
    /\ Last(sent').payload.typingSpeed = data'.typingSpeed
    /\ Last(sent').payload.mouseJitter = data'.mouseJitter

\* the current session and the number of events handled so far
Now == [session |-> sessionNo, events |-> nKeys + Len(posHist)]

(***************************************************************************)
(* C11.  As claimed: whenever the sampler publishes a new sample while     *)
(* monitoring is active, the client sends one BEHAVIOR_REPORT whose        *)
(* typingSpeed and mouseJitter are the metrics just published; and no      *)
(* BEHAVIOR_REPORT is sent while monitoring is inactive.  (Violated: while *)
(* the socket is not open a published sample sends nothing.)               *)
(***************************************************************************)
C11_ReportPerSample ==
    [][/\ (Published /\ isActive) => OneReportOfNewSample
       /\ sent' # sent => isActive']_vars

(***************************************************************************)
(* C11, amended.  Whenever the sampler publishes a new sample while        *)
(* monitoring is active and the connection is open, the client sends one   *)
(* BEHAVIOR_REPORT whose typingSpeed and mouseJitter are the metrics just  *)
(* published; a sample published while the connection is not open sends    *)
(* nothing; and no BEHAVIOR_REPORT is sent while monitoring is inactive.   *)
(***************************************************************************)
C11_ReportPerSampleWhileOpen ==
    [][/\ (Published /\ isActive /\ socket = "OPEN") => OneReportOfNewSample
       /\ (Published /\ socket # "OPEN") => sent' = sent
       /\ sent' # sent => isActive']_vars

\* the last report went out with the connection open, for a keystroke of the
\* current session, and carries a typing speed that differs from the jitter
C11_Witness ==
    /\ isActive
    /\ socket = "OPEN"
    /\ keyTimes # <<>>
    /\ sent # <<>>
    /\ Last(sentAt) = Now
    /\ Last(sent).payload.typingSpeed.n > 0
    /\ Last(sent).payload.typingSpeed = data.typingSpeed
    /\ Last(sent).payload.mouseJitter = RInt(0)

(***************************************************************************)
(* C12.  Channel closure on either side terminates monitoring for that     *)
(* session: once the connection is closed the sampler observes no further  *)
(* key or pointer event (its windows and its published sample stop         *)
(* changing), and nothing more is sent or processed.  (App sets no onclose *)
(* handler and the hook's listeners depend on isActive alone: TLC finds    *)
(* this violated.)                                                         *)
(***************************************************************************)
C12_ClosureEndsMonitoring ==
    [][socket = "CLOSED" =>
          UNCHANGED <<keyIntervals, mousePositions, lastKeyTime, data, sent,
                      appRiskScore, appRiskReason>>]_vars

(***************************************************************************)
(* C13.  The client opens its connection once and never reconnects: once   *)
(* the socket is closed it stays closed, no BEHAVIOR_REPORT is sent and no *)
(* RISK_UPDATE is applied for the rest of the run.                         *)
(***************************************************************************)
C13_NeverReconnects ==
    [][socket = "CLOSED" =>
          /\ socket' = "CLOSED"
          /\ sent' = sent
          /\ delivered' = delivered
          /\ appRiskScore' = appRiskScore
          /\ appRiskReason' = appRiskReason]_vars

\* the first activation sent a report and an update was applied while the
\* socket was open; the form was shown again after the close and nothing went out
C13_Witness ==
    /\ socket = "CLOSED"
    /\ isActive
    /\ sessionNo = 2
    /\ Len(sent) = 1
    /\ sentAt[1].session = 1
    /\ appRiskScore = 70

\* the frames of log that are RISK_UPDATEs
IsUpdateFrame(m) == m.parses /\ m.type = "RISK_UPDATE"

UpdatesIn(log) == SelectSeq(log, IsUpdateFrame)

(***************************************************************************)
(* C14.  Displayed risk is last-write-wins: in every reachable state the   *)
(* displayed riskScore and reason are those of the payload of the most     *)
(* recently received RISK_UPDATE, or 0 and "System Initialized" if none    *)
(* has been received; frames of any other type leave them unchanged.       *)
(***************************************************************************)
C14_DisplayedIsLastUpdate ==
    IF UpdatesIn(delivered) = <<>>
    THEN appRiskScore = 0 /\ appRiskReason = "System Initialized"
    ELSE /\ appRiskScore = Last(UpdatesIn(delivered)).payload.riskScore
         /\ appRiskReason = Last(UpdatesIn(delivered)).payload.reason

\* two different updates and then a frame of another type have been received:
\* the second update is what is displayed
C14_Witness ==
    /\ Len(delivered) = 3
    /\ delivered[1] = Downstream("RISK_UPDATE", 0, "Normal")
    /\ delivered[2] = Downstream("RISK_UPDATE", 70, "Anomalous interaction detected")
    /\ delivered[3].type = "SESSION_ACK"
    /\ appRiskScore = 70
    /\ appRiskReason = "Anomalous interaction detected"

\* the listener is being run on the oldest frame of connection c in this step
Handling(c) == inbox[c] # <<>> /\ inbox'[c] = Tail(inbox[c])

\* a frame that parses and whose type the listener has no branch for
OtherType(m) == m.parses /\ m.type \notin {"BEHAVIOR_REPORT", "SESSION_INIT"}

(***************************************************************************)
(* C15.  An upstream message whose type is neither BEHAVIOR_REPORT nor     *)
(* SESSION_INIT is ignored without error: handling it sends nothing on any *)
(* connection, leaves the session store unchanged and does not throw.      *)
(***************************************************************************)
C15_OtherTypeIgnored ==
    [][\A c \in Conns :
          (Handling(c) /\ OtherType(Head(inbox[c]))) =>
              /\ outbox' = outbox
              /\ sessions' = sessions
              /\ serverUp']_vars

\* a PING was handled between an initialisation and a report of the same
\* connection: the server went on, with one record and one update
C15_Witness ==
    \E c \in Conns :
        /\ Len(Handled(c)) = 3
        /\ Handled(c)[1].type = "SESSION_INIT"
        /\ Handled(c)[2] = Bare("PING")
        /\ IsReport(Handled(c)[3])
        /\ serverUp
        /\ Cardinality(DOMAIN sessions) = 1
        /\ Len(outbox[c]) = 1

(***************************************************************************)
(* C20.  The scorer has no memory and depends on the two metrics only: two *)
(* BEHAVIOR_REPORTs with equal typingSpeed and equal mouseJitter produce   *)
(* equal RISK_UPDATEs, whatever their sessionToken, their connection, the  *)
(* reports and SESSION_INITs handled before them and the session store.    *)
(***************************************************************************)
C20_ScoreDependsOnMetricsOnly ==
    \A c, d \in Conns :
        \A k \in 1..Len(outbox[c]), j \in 1..Len(outbox[d]) :
            LET m == HandledReports(c)[k]
                n == HandledReports(d)[j]
            IN  (m.typingSpeed = n.typingSpeed /\ m.mouseJitter = n.mouseJitter)
                    => outbox[c][k] = outbox[d][j]

\* two reports with the same metrics and different tokens were scored on two
\* connections, the second one after its token had been initialised
C20_Witness ==
    \E c, d \in Conns :
        /\ c # d
        /\ Len(outbox[c]) = 1
        /\ Len(outbox[d]) = 1
        /\ HandledReports(c)[1].token # HandledReports(d)[1].token
        /\ HandledReports(c)[1].typingSpeed = HandledReports(d)[1].typingSpeed
        /\ HandledReports(c)[1].mouseJitter = HandledReports(d)[1].mouseJitter
        /\ Len(Handled(d)) = 2
        /\ Handled(d)[1] = SessionInit(HandledReports(d)[1].token)
        /\ DOMAIN sessions = {HandledReports(d)[1].token}
        /\ outbox[c] = outbox[d]

\* the positions of the pointer events of the current session that a window
\* of PtrCap positions would hold
SessionPositions == LastN(posHist, Min(PtrCap, sessPtr))

\* ts is the typing speed the keystrokes of the current session alone give
FromSessionKeys(ts) ==
    IF Len(keyTimes) < 2 THEN ts = RInt(0)
    ELSE IsMeanOf(ts, LastN(GapsOf(keyTimes), Min(KeyCap, Len(keyTimes) - 1)))

\* mj is the jitter the pointer events of the current session alone give
FromSessionPointer(mj) ==
    IF Len(SessionPositions) < 3 THEN mj = RInt(0)
    ELSE IsMeanAbsDevOf(mj, StepLengths(SessionPositions))

(***************************************************************************)
(* C16.  No data survives a monitoring session boundary: the sample        *)
(* published and the report sent during a session carry a typingSpeed and  *)
(* a mouseJitter derived from the events of that session only (or 0), so   *)
(* that runs differing only in the events of earlier sessions send the     *)
(* same reports in the current one.  (The windows, lastKeyTime and the     *)
(* sample itself are kept across sessions, see C2: TLC finds this          *)
(* violated.)                                                              *)
(***************************************************************************)
C16_NoCrossSessionData ==
    /\ (isActive /\ Len(keyTimes) + sessPtr > 0) =>
           /\ FromSessionKeys(data.typingSpeed)
           /\ FromSessionPointer(data.mouseJitter)
    /\ (isActive /\ sent # <<>> /\ Last(sentAt) = Now) =>
           /\ FromSessionKeys(Last(sent).payload.typingSpeed)
           /\ FromSessionPointer(Last(sent).payload.mouseJitter)

(***************************************************************************)
(* C17.  The first keystroke of every monitoring session (the first        *)
(* session and each one after a reactivation) pushes no interval into the  *)
(* key-interval window and leaves typingSpeed unchanged.  (In a later      *)
(* session lastKeyTime still holds the last keystroke of the session       *)
(* before, see C2: TLC finds this violated.)                               *)
(***************************************************************************)
C17_FirstKeyPushesNothing ==
    [][(keyTimes = <<>> /\ Len(keyTimes') = 1) =>
          /\ keyIntervals' = keyIntervals
          /\ data'.typingSpeed = data.typingSpeed]_vars

(***************************************************************************)
(* C18.  Derived metrics are never stale: after any interleaving of key    *)
(* events, pointer events, activations and deactivations the published     *)
(* typingSpeed is the mean of the gaps currently in the key-interval       *)
(* window (0 if it is empty) and the published mouseJitter is the mean     *)
(* absolute deviation of the step lengths over the positions currently in  *)
(* the pointer window (0 if it holds fewer than 3 positions).              *)
(***************************************************************************)
C18_MetricsMatchWindows ==
    /\ IF keyIntervals = <<>> THEN data.typingSpeed = RInt(0)
       ELSE IsMeanOf(data.typingSpeed, keyIntervals)
    /\ IF Len(mousePositions) < 3 THEN data.mouseJitter = RInt(0)
       ELSE IsMeanAbsDevOf(data.mouseJitter, StepLengths(mousePositions))

\* after a deactivation and a reactivation: the key window holds the gap
\* between the keystrokes of the two sessions and typingSpeed is that gap; the
\* pointer window holds one position of each session and mouseJitter is 0
C18_Witness ==
    /\ sessionNo = 2
    /\ Len(keyTimes) = 1
    /\ Len(keyIntervals) = 1
    /\ data.typingSpeed = RInt(keyIntervals[1])
    /\ data.typingSpeed.n > 0
    /\ sessPtr = 1
    /\ Len(mousePositions) = 2
    /\ data.mouseJitter = RInt(0)

(***************************************************************************)
(* C19.  While monitoring is inactive all event observation is detached:   *)
(* a key or pointer event occurring while isActive is false changes        *)
(* neither window, nor the last-keystroke timestamp, nor the published     *)
(* sample, and causes no BEHAVIOR_REPORT.                                  *)
(***************************************************************************)
C19_DetachedWhileInactive ==
    [][(~isActive /\ Events' # Events) =>
          UNCHANGED <<keyIntervals, mousePositions, lastKeyTime, data, sent>>]_vars

\* an event has been dispatched and not handled after a session in which a
\* report was sent, with the socket still open
C19_Witness ==
    /\ ~isActive
    /\ sessionNo >= 1
    /\ socket = "OPEN"
    /\ sent # <<>>
    /\ ignored > 0
    /\ nKeys + Len(posHist) > 0

\* a frame the listener cannot handle: unparseable text, or a BEHAVIOR_REPORT
\* or SESSION_INIT with no payload object
Malformed(m) ==
    ~m.parses \/ (m.type \in {"BEHAVIOR_REPORT", "SESSION_INIT"} /\ ~m.hasPayload)

\* every frame that has arrived on connection c is well-formed
OwnTrafficWellFormed(c) ==
    \A i \in 1..Len(received[c]) : ~Malformed(received[c][i])

(***************************************************************************)
(* C21.  A RISK_UPDATE is delivered only on the connection whose           *)
(* BEHAVIOR_REPORT caused it: the updates sent on a connection are the     *)
(* scores of the reports handled on that connection, in order, and the     *)
(* sequence a connection receives is unaffected by the traffic on the      *)
(* others, so a connection whose own frames are all well-formed never has  *)
(* a frame left that the server will not handle.  (A malformed frame on    *)
(* one connection ends the process for all of them, see C8: TLC finds this *)
(* violated.)                                                              *)
(***************************************************************************)
C21_UpdatesOnOwnConnection ==
    \A c \in Conns :
        /\ Len(outbox[c]) <= Len(HandledReports(c))
        /\ \A k \in 1..Len(outbox[c]) :
               outbox[c][k] = Prescribed(HandledReports(c)[k].typingSpeed,
                                         HandledReports(c)[k].mouseJitter)
        /\ (OwnTrafficWellFormed(c) /\ inbox[c] # <<>>) => serverUp

(***************************************************************************)
(* C22.  BEHAVIOR_REPORTs are sent only on a metric recomputation: the     *)
(* number of reports the client has sent never exceeds the number of       *)
(* samples the sampler has published while monitoring was active, so that  *)
(* activating monitoring with no input event sends no report.  (The report *)
(* effect also depends on showLogin and runs on activation: TLC finds this *)
(* violated.)                                                              *)
(***************************************************************************)
C22_ReportsOnlyOnRecomputation ==
    Len(sent) <= nKeys + Len(posHist)

(***************************************************************************)
(* C23.  The session-init and the behavior-report flows do not touch each  *)
(* other's effects: handling a BEHAVIOR_REPORT leaves the session store    *)
(* unchanged, also for a token never initialised, and handling a           *)
(* SESSION_INIT sends nothing on any connection.                           *)
(***************************************************************************)
C23_FlowsIndependent ==
    [][\A c \in Conns :
          /\ (Handling(c) /\ IsReport(Head(inbox[c]))) => sessions' = sessions
          /\ (Handling(c) /\ Head(inbox[c]).parses
                /\ Head(inbox[c]).type = "SESSION_INIT") => outbox' = outbox]_vars

\* on one connection a token was initialised and then a report with another
\* token was scored: one update, and still the one record
C23_Witness ==
    \E c \in Conns :
        /\ Len(Handled(c)) = 2
        /\ Handled(c)[1] = SessionInit("tokA")
        /\ IsReport(Handled(c)[2])
        /\ Handled(c)[2].token = "tokB"
        /\ DOMAIN sessions = {"tokA"}
        /\ Len(outbox[c]) = 1
        /\ \A d \in Conns \ {c} : outbox[d] = <<>>

\* the metric v, if present, is greater than num / den
Exceeds(v, num, den) == v # Undefined /\ v.n * den > num * v.d

(***************************************************************************)
(* C24.  Every RISK_UPDATE the server sends has riskScore in               *)
(* {0, 30, 40, 70}, and its reason is "Anomalous interaction detected"     *)
(* exactly when riskScore = 70, that is exactly when both typingSpeed >    *)
(* 500 and mouseJitter > 0.8; a single exceeded threshold is reported as   *)
(* "Normal".                                                               *)
(***************************************************************************)
C24_ScoresAndReasons ==
    \A c \in Conns :
        \A k \in 1..Len(outbox[c]) :
            LET u == outbox[c][k].payload
                m == HandledReports(c)[k]
                both == Exceeds(m.typingSpeed, 500, 1) /\ Exceeds(m.mouseJitter, 8, 10)
            IN  /\ outbox[c][k].type = "RISK_UPDATE"
                /\ u.riskScore \in {0, 30, 40, 70}
                /\ u.reason \in {"Anomalous interaction detected", "Normal"}
                /\ (u.reason = "Anomalous interaction detected") <=> (u.riskScore = 70)
                /\ (u.riskScore = 70) <=> both

\* a report exceeding the jitter threshold alone was scored 40 / Normal
C24_Witness ==
    \E c \in Conns :
        /\ Len(HandledReports(c)) = 1
        /\ HandledReports(c)[1].typingSpeed = RInt(500)
        /\ HandledReports(c)[1].mouseJitter = Rat(81, 100)
        /\ outbox[c] = <<Update(40, "Normal")>>

\* a step in which handleKeyDown has run / handleMouseMove has run
KeyStep == nKeys' = nKeys + 1

PointerStep == Len(posHist') = Len(posHist) + 1

(***************************************************************************)
(* C25.  A key event leaves mouseJitter and the pointer window unchanged   *)
(* (it changes only typingSpeed, the timestamp, the key-interval window    *)
(* and the last-keystroke time); a pointer event leaves typingSpeed, the   *)
(* key-interval window and the last-keystroke time unchanged (it changes   *)
(* only mouseJitter, the timestamp and the pointer window); in any         *)
(* interleaving of the two kinds of event.                                 *)
(***************************************************************************)
C25_HandlersFrame ==
    [][/\ KeyStep =>
            /\ data'.mouseJitter = data.mouseJitter
            /\ mousePositions' = mousePositions
            /\ isActive' = isActive
       /\ PointerStep =>
            /\ data'.typingSpeed = data.typingSpeed
            /\ keyIntervals' = keyIntervals
            /\ lastKeyTime' = lastKeyTime
            /\ isActive' = isActive]_vars

\* one keystroke and three pointer events with unequal steps have been
\* handled in one session: the jitter of the three positions is published,
\* the key-interval window is empty and the keystroke's time is kept
C25_Witness ==
    /\ sessionNo = 1
    /\ nKeys = 1
    /\ lastKeyTime = keyTimes[1]
    /\ keyIntervals = <<>>
    /\ data.typingSpeed = RInt(0)
    /\ Len(mousePositions) = 3
    /\ data.mouseJitter.n > 0

(***************************************************************************)
(* C26.  In every reachable state the published typingSpeed and            *)
(* mouseJitter are non-negative, given that successive keystroke capture   *)
(* times do not decrease (Date.now() never goes back in the model).        *)
(***************************************************************************)
C26_MetricsNonNegative ==
    /\ data.typingSpeed.n >= 0
    /\ data.typingSpeed.d > 0
    /\ data.mouseJitter.n >= 0
    /\ data.mouseJitter.d > 0

\* two keystrokes at increasing times and two pointer events: a positive
\* typing speed and a jitter of 0
C26_Witness ==
    /\ Len(keyTimes) = 2
    /\ keyTimes[1] < keyTimes[2]
    /\ data.typingSpeed.n > 0
    /\ Len(mousePositions) = 2
    /\ data.mouseJitter = RInt(0)

====
